---- MODULE Spec2Model ----
(***************************************************************************)
(* Model of generate_encounter_narrative.py: one run of main() selects an  *)
(* encounter from the loaded tables, builds the encounter and patient       *)
(* profiles, summarizes the encounter's category tables, fuses the          *)
(* narratives, predicts the documents, writes each with the ReAct writer    *)
(* (which may ask the head physician), refines each and saves it under the  *)
(* output directory.  The language model is an external collaborator: each  *)
(* call either returns a text or raises.  The from_row constructors and    *)
(* the date parsers are also modelled on their own, cell by cell.           *)
(***************************************************************************)
EXTENDS Integers, Sequences, FiniteSets, TLC

----------------------------------------------------------------------------
(* Bounds of the model *)

\* rows of the one category table that varies from dataset to dataset
MaxRows == 1
\* entries of the list the document predictor returns
MaxDocs == 2
\* ask_head_physician calls the writer makes for one document
MaxOracleCalls == 1
\* invocations of main() against the same output directory
MaxRuns == 2

----------------------------------------------------------------------------
(* Values *)

\* Python's None
None == "None"
\* pandas' missing value: read_csv gives NaN for an empty cell
NaN == "NaN"

\* --seed: its default and one other value
DEFAULT_SEED == 313
Seeds == {DEFAULT_SEED, DEFAULT_SEED + 1}

\* the eight tables main() summarizes, in the order of its calls
CategoryOrder ==
    << "observations", "immunizations", "medications", "procedures",
       "careplans", "conditions", "devices", "imaging_studies" >>
Categories == {CategoryOrder[k] : k \in 1..Len(CategoryOrder)}

\* the narrator function main() passes for each table
narrator_function(table_name) == "generate_" \o table_name \o "_narrative"

\* the keyword of generate_encounter_narrative main() binds each narrative to
narrative_slot(table_name) == table_name \o "_narrative"

----------------------------------------------------------------------------
(* The dataset: the tables load_synthea_data returns *)

EncounterRow(i, id, patient, ok) ==
    [index |-> i, Id |-> id, PATIENT |-> patient, required_ok |-> ok]
PatientRow(i, id, ok) == [index |-> i, Id |-> id, required_ok |-> ok]
\* a row of a category table: its ENCOUNTER cell and whether its required
\* cells are all present and well formed (from_row raises otherwise)
CategoryRow(i, enc, ok) == [index |-> i, ENCOUNTER |-> enc, required_ok |-> ok]

encounters_table ==
    [columns |-> {"Id", "PATIENT"},
     rows |-> << EncounterRow(1, "E1", "P1", TRUE),
                 EncounterRow(2, "E2", "P1", TRUE),
                 EncounterRow(3, "E3", "P1", TRUE),
                 EncounterRow(4, "E4", "P9", TRUE),
                 EncounterRow(5, "E5", "P2", TRUE),
                 EncounterRow(6, "E6", "P1", FALSE) >>]

patients_table ==
    [columns |-> {"Id"},
     rows |-> << PatientRow(1, "P1", TRUE), PatientRow(2, "P2", FALSE) >>]

CategoryTable(rows) == [columns |-> {"ENCOUNTER"}, rows |-> rows]

\* the reference dataset: E1 has two observations and a medication, E2 has
\* no category row, E3 has an observation and a malformed condition row
ReferenceTables ==
    [encounters |-> encounters_table,
     patients |-> patients_table,
     organizations |-> [columns |-> {"Id"}, rows |-> << [index |-> 1, Id |-> "O1"] >>],
     allergies |-> CategoryTable(<< CategoryRow(1, "E1", TRUE) >>),
     observations |-> CategoryTable(<< CategoryRow(1, "E1", TRUE),
                                       CategoryRow(2, "E3", TRUE),
                                       CategoryRow(3, "E1", TRUE) >>),
     medications |-> CategoryTable(<< CategoryRow(1, "E1", TRUE) >>),
     procedures |-> CategoryTable(<< CategoryRow(1, NaN, TRUE) >>),
     conditions |-> CategoryTable(<< CategoryRow(1, "E3", FALSE) >>),
     devices |-> CategoryTable(<< >>)]

Restrict(f, S) == [x \in S |-> f[x]]

\* the cells a row of the varied table may hold
RowKinds == { <<"E1", TRUE>>, <<"E1", FALSE>>, <<"E2", TRUE>>, <<NaN, TRUE>> }
RowSeqs == UNION { [1..n -> RowKinds] : n \in 0..MaxRows }
MkRows(ks) == [i \in 1..Len(ks) |-> CategoryRow(i, ks[i][1], ks[i][2])]

\* the reference dataset with one category table replaced or not loaded
WithTable(c, rows) ==
    [n \in (DOMAIN ReferenceTables) \cup {c} |->
        IF n = c THEN CategoryTable(rows) ELSE ReferenceTables[n]]
WithoutTable(c) == Restrict(ReferenceTables, (DOMAIN ReferenceTables) \ {c})
Datasets ==
    {ReferenceTables}
      \cup { WithTable(c, MkRows(ks)) : c \in Categories, ks \in RowSeqs }
      \cup { WithoutTable(c) : c \in Categories }

----------------------------------------------------------------------------
(* Command line *)

\* --encounter-id: omitted, empty, an Id of the encounters table, or unknown
EncounterIdArgs == {None, "", "E1", "E2", "E3", "E4", "E5", "E6", "EX"}
\* the command lines tried: any --encounter-id with the default seed, no
\* --encounter-id with any seed, all with MLflow logging, and one with
\* --no-mlflow
ArgChoices ==
    { [encounter_id |-> e, seed |-> DEFAULT_SEED, no_mlflow |-> FALSE] :
        e \in EncounterIdArgs }
      \cup { [encounter_id |-> None, seed |-> s, no_mlflow |-> FALSE] : s \in Seeds }
      \cup { [encounter_id |-> "E2", seed |-> DEFAULT_SEED, no_mlflow |-> TRUE] }

\* Python truthiness of an Optional[str]: None and "" are falsy
Truthy(s) == s # None /\ s # ""

----------------------------------------------------------------------------
(* The language model's outputs *)

\* what a category narrator may return: a narrative, possibly the empty text
NarrativeTexts(table_name) == {"", "narrative of " \o table_name}
PatientNarrativeText == "patient narrative"
EncounterNarrativeText == "encounter narrative"
AnswerText == "answer"

\* the entries DocumentationGuru may return: dicts with the keys type and
\* description, or with one of them missing
DocTypes == {"A", "B"}
DocEntries ==
    { [type |-> t, description |-> "about " \o t] : t \in DocTypes }
      \cup { [type |-> "A"], [description |-> "about A"] }
DocLists == UNION { [1..n -> DocEntries] : n \in 0..MaxDocs }

DocumentText(document_type, description) == "document " \o document_type
RealisticText(document_type, original_document) == "realistic " \o original_document
\* what the refiner may return: the document restyled, or restyled with
\* template boilerplate the signature asks for (an MRN line) filled in;
\* the second is tried for the documents of one type only
BoilerplateText(document_type, original_document) ==
    "realistic " \o original_document \o " MRN: 12345"
RealisticTexts(document_type, original_document) ==
    IF document_type = "B"
    THEN { RealisticText(document_type, original_document),
           BoilerplateText(document_type, original_document) }
    ELSE { RealisticText(document_type, original_document) }

----------------------------------------------------------------------------
VARIABLES
    dataframes,            \* the tables loaded from --data-dir
    ARGS,                  \* the parsed command line (module global)
    pyRandom,              \* seed of Python's random module
    pc,                    \* where main() is
    error,                 \* the exception that ended the run, or None
    encounter_profile,     \* locals of main()
    patient_profile,
    encounter_dataframes,
    narrative,             \* table name -> the *_narrative local of main()
    table_index,           \* index in CategoryOrder of the next table
    patient_narrative,
    encounter_narrative,
    documents_list,
    result,
    doc_index,             \* index of the document the current loop is at
    asked,                 \* oracle calls made for the document being written
    refined_document,
    calls,                 \* the language-model calls of this run, in order
    dirs,                  \* directories under --output-dir
    files,                 \* file path -> content under --output-dir
    runs,                  \* one record per invocation of main()
    writes,                \* one record per file written by save_document
    profile_class,         \* the class whose from_row is applied to row
    cells,                 \* a row of a table, cell by cell
    record,                \* what from_row(row) gave: a profile or an error
    summarized,            \* the tables whose narrative call was made, when
                           \* the calls are taken in any order
    savers                 \* the save_document calls that run side by side

locals ==
    << encounter_profile, patient_profile, encounter_dataframes, narrative,
       table_index, patient_narrative, encounter_narrative, documents_list,
       result, doc_index, asked, refined_document >>
fsVars == << dirs, files, writes >>
scheduleVars == << summarized, savers >>
rowVars == << profile_class, cells, record, scheduleVars >>
vars ==
    << dataframes, ARGS, pyRandom, pc, error, locals, calls, fsVars, runs,
       rowVars >>

----------------------------------------------------------------------------
(* Pure helpers of the script *)

\* encounters_df[encounters_df["Id"] == encounter_id]
encounter_rows(dfs, encounter_id) ==
    SelectSeq(dfs["encounters"].rows, LAMBDA r : r.Id = encounter_id)

\* encounters_df.sample(): pandas draws from numpy's global generator, which
\* random.seed() does not seed, so any row may come out whatever the seed
sample(rows, py_seed) == {rows[n] : n \in 1..Len(rows)}

\* the patients table taken without the test on Id
patient_rows_unfiltered(dfs, patient_id) == dfs["patients"].rows

\* patients_df.loc[patients_df["Id"] == encounter_profile.patient]
patient_rows(dfs, patient_id) ==
    SelectSeq(dfs["patients"].rows, LAMBDA r : r.Id = patient_id)

\* EncounterProfile.from_row on a row whose required cells are well formed
EncounterProfile_from_row(row) == [id |-> row.Id, patient |-> row.PATIENT]
PatientProfile_from_row(row) == [id |-> row.Id]
\* the from_row of a category profile: the encounter cell maps NaN to None
Profile_from_row(row) ==
    [encounter |-> IF row.ENCOUNTER = NaN THEN None ELSE row.ENCOUNTER,
     row |-> row.index]

\* the table taken whole when it holds a row of the encounter
filtered_df_whole_table(df, encounter_id) ==
    IF \E n \in 1..Len(df.rows) : df.rows[n].ENCOUNTER = encounter_id
    THEN df.rows ELSE << >>

\* df[df["ENCOUNTER"] == encounter_id]
filtered_df(df, encounter_id) ==
    SelectSeq(df.rows, LAMBDA r : r.ENCOUNTER = encounter_id)

\* get_encounter_related_data without its "not filtered_df.empty" test
get_encounter_related_data_keeping_empty(dfs, encounter_id) ==
    LET names == { n \in DOMAIN dfs : "ENCOUNTER" \in dfs[n].columns }
    IN  [n \in names |-> filtered_df(dfs[n], encounter_id)]

\* the tables with an ENCOUNTER column and at least one row of the encounter
get_encounter_related_data(dfs, encounter_id) ==
    LET names == { n \in DOMAIN dfs :
                     /\ "ENCOUNTER" \in dfs[n].columns
                     /\ filtered_df(dfs[n], encounter_id) # << >> }
    IN  [n \in names |-> filtered_df(dfs[n], encounter_id)]

\* profiles = [profile_class.from_row(row) for each row]
profiles_of(rows) == [n \in 1..Len(rows) |-> Profile_from_row(rows[n])]

\* the keyword arguments with two narratives passed in each other's place
encounter_narrative_input_swapped(profile, patient_text, narr) ==
    [encounter_profile |-> profile,
     patient_profile_narrative |-> patient_text,
     observations_narrative |-> narr["observations"],
     immunizations_narrative |-> narr["immunizations"],
     medications_narrative |-> narr["procedures"],
     procedures_narrative |-> narr["medications"],
     careplans_narrative |-> narr["careplans"],
     conditions_narrative |-> narr["conditions"],
     devices_narrative |-> narr["devices"],
     imaging_studies_narrative |-> narr["imaging_studies"]]

\* the keyword arguments main() passes to generate_encounter_narrative
encounter_narrative_input(profile, patient_text, narr) ==
    [encounter_profile |-> profile,
     patient_profile_narrative |-> patient_text,
     observations_narrative |-> narr["observations"],
     immunizations_narrative |-> narr["immunizations"],
     medications_narrative |-> narr["medications"],
     procedures_narrative |-> narr["procedures"],
     careplans_narrative |-> narr["careplans"],
     conditions_narrative |-> narr["conditions"],
     devices_narrative |-> narr["devices"],
     imaging_studies_narrative |-> narr["imaging_studies"]]

\* the list ask_head_physician collects: the encounter and patient
\* narratives, then each category narrative that is truthy
head_physician_narratives(encounter_text, patient_text, narr) ==
    << encounter_text, patient_text >>
      \o SelectSeq([n \in 1..Len(CategoryOrder) |-> narr[CategoryOrder[n]]], Truthy)

\* a first loop that counts the directories instead of probing each variant
free_variant_by_count(ds, encounter_id) == Cardinality(ds)

\* save_document's first loop: the first variant whose directory is not there
free_variant(ds, encounter_id) ==
    CHOOSE v \in 0..Cardinality(ds) :
        /\ << encounter_id, v >> \notin ds
        /\ \A u \in 0..(v - 1) : << encounter_id, u >> \in ds

\* save_document's second loop: the first counter whose file is not there
free_counter(fs, output_dir) ==
    CHOOSE c \in 0..Cardinality(DOMAIN fs) :
        /\ (output_dir \o << c >>) \notin DOMAIN fs
        /\ \A u \in 0..(c - 1) : (output_dir \o << u >>) \in DOMAIN fs

\* save_document without its two scans: always variant 0, file 0.txt
output_file_without_scan(ds, fs, encounter_id) == << encounter_id, 0, 0 >>

\* the file save_document writes for the encounter, given what exists
output_file(ds, fs, encounter_id) ==
    LET output_dir == << encounter_id, free_variant(ds, encounter_id) >>
    IN  output_dir \o << free_counter(fs, output_dir) >>

\* open(output_file, "w") with nothing written before the file is closed
write_file_left_empty(fs, path, document) ==
    [p \in (DOMAIN fs) \cup {path} |-> IF p = path THEN "" ELSE fs[p]]

\* a save that clears what was saved before it
write_file_alone(fs, path, document) == [p \in {path} |-> document]

\* open(output_file, "w") and write
write_file(fs, path, document) ==
    [p \in (DOMAIN fs) \cup {path} |-> IF p = path THEN document ELSE fs[p]]

----------------------------------------------------------------------------
(* Cells and texts: what from_row reads from a row *)

\* a cell of a row as pandas holds it: the missing value, a str (a text is
\* the sequence of its characters), or a number
NaNCell == [kind |-> "nan"]
Str(text) == [kind |-> "str", text |-> text]
Num(n) == [kind |-> "num", value |-> n]
\* a field of a profile that is None
NoneField == [kind |-> "None"]

\* pd.isna(cell)
isna(cell) == cell.kind = "nan"

DigitValue ==
    ("0" :> 0) @@ ("1" :> 1) @@ ("2" :> 2) @@ ("3" :> 3) @@ ("4" :> 4) @@
    ("5" :> 5) @@ ("6" :> 6) @@ ("7" :> 7) @@ ("8" :> 8) @@ ("9" :> 9)
DigitChar == [n \in 0..9 |-> CHOOSE c \in DOMAIN DigitValue : DigitValue[c] = n]

\* text.split(sep): the parts between the separators, at least one part
RECURSIVE split(_, _)
split(text, sep) ==
    IF text = << >> THEN << << >> >>
    ELSE LET rest == split(Tail(text), sep)
         IN  IF Head(text) = sep THEN << << >> >> \o rest
             ELSE << << Head(text) >> \o rest[1] >> \o Tail(rest)

\* text.rstrip(ch): the text without its trailing run of ch
RECURSIVE rstrip(_, _)
rstrip(text, ch) ==
    IF text # << >> /\ text[Len(text)] = ch
    THEN rstrip(SubSeq(text, 1, Len(text) - 1), ch)
    ELSE text

\* whether int(text) returns, for texts of digits, letters and separators:
\* int() raises ValueError on the empty text and on any non-digit here
int_ok(text) ==
    text # << >> /\ \A n \in 1..Len(text) : text[n] \in DOMAIN DigitValue

\* int(text) for a text of decimal digits
RECURSIVE int(_)
int(text) ==
    IF text = << >> THEN 0
    ELSE 10 * int(SubSeq(text, 1, Len(text) - 1)) + DigitValue[text[Len(text)]]

\* str(n) for a natural number
RECURSIVE str(_)
str(n) == IF n < 10 THEN << DigitChar[n] >> ELSE str(n \div 10) \o << DigitChar[n % 10] >>

\* what an expression gave: a value, or the exception it raised
Value(v) == [ok |-> TRUE, value |-> v]
Raises(e) == [ok |-> FALSE, error |-> e]

----------------------------------------------------------------------------
(* parse_date, parse_datetime and the from_row constructors *)

\* Date(year=int(year), month=int(month), day=int(day)): three int fields,
\* no validator
Date(year, month, day) == [year |-> int(year), month |-> int(month), day |-> int(day)]

\* parse_date: None for a missing or empty cell, else the three integers
\* between the hyphens; the unpacking and int() raise ValueError
parse_date(date_str) ==
    IF isna(date_str) \/ date_str = Str(<< >>) THEN Value(NoneField)
    ELSE IF date_str.kind # "str" THEN Raises("AttributeError")
    ELSE LET parts == split(date_str.text, "-")
         IN  IF Len(parts) # 3 THEN Raises("ValueError")
             ELSE IF \E k \in 1..3 : ~int_ok(parts[k]) THEN Raises("ValueError")
             ELSE Value(Date(parts[1], parts[2], parts[3]))

\* DateTime(...): six int fields, no validator
DateTime(date, time) ==
    [year |-> int(date[1]), month |-> int(date[2]), day |-> int(date[3]),
     hour |-> int(time[1]), minute |-> int(time[2]), second |-> int(time[3])]

\* parse_datetime: None for a missing or empty cell, else the six integers
\* of YYYY-MM-DDTHH:MM:SS with any trailing Z removed
parse_datetime(datetime_str) ==
    IF isna(datetime_str) \/ datetime_str = Str(<< >>) THEN Value(NoneField)
    ELSE IF datetime_str.kind # "str" THEN Raises("AttributeError")
    ELSE LET halves == split(rstrip(datetime_str.text, "Z"), "T")
         IN  IF Len(halves) # 2 THEN Raises("ValueError")
             ELSE LET date == split(halves[1], "-")
                      time == split(halves[2], ":")
                  IN  IF Len(date) # 3 \/ Len(time) # 3 THEN Raises("ValueError")
                      ELSE IF \E k \in 1..3 : ~int_ok(date[k]) \/ ~int_ok(time[k])
                           THEN Raises("ValueError")
                      ELSE Value(DateTime(date, time))

\* None if pd.isna(cell) else cell
none_if_na(cell) == Value(IF isna(cell) THEN NoneField ELSE cell)

\* None if pd.isna(cell) else float(cell), for numbers and texts of digits
float_or_none(cell) ==
    IF isna(cell) THEN Value(NoneField)
    ELSE IF cell.kind = "num" THEN Value(cell)
    ELSE IF int_ok(cell.text) THEN Value(Num(int(cell.text)))
    ELSE Raises("ValueError")

\* None if pd.isna(cell) else str(int(cell)), for numbers and texts
str_int_or_none(cell) ==
    IF isna(cell) THEN Value(NoneField)
    ELSE IF cell.kind = "num" THEN Value(Str(str(cell.value)))
    ELSE IF int_ok(cell.text) THEN Value(Str(str(int(cell.text))))
    ELSE Raises("ValueError")

\* cls(**kwargs): the exception of the first keyword expression that raised,
\* else ValidationError when a field that is not Optional is None, else the
\* profile
cls(name, order, kwargs, required) ==
    LET bad == { k \in 1..Len(order) : ~kwargs[order[k]].ok }
    IN  IF bad # {}
        THEN Raises(kwargs[order[CHOOSE k \in bad : \A j \in bad : k <= j]].error)
        ELSE LET fields == [f \in DOMAIN kwargs |-> kwargs[f].value]
             IN  IF \E f \in required : fields[f] = NoneField
                 THEN Raises("ValidationError")
                 ELSE Value([class |-> name, fields |-> fields])

\* PatientProfile.from_row, for the cells Id, BIRTHDATE, MARITAL, DEATHDATE
\* and ZIP
PatientProfile_cls(r) ==
    cls("PatientProfile",
        << "id", "birthdate", "marital", "deathdate", "zip" >>,
        [id |-> Value(r.Id),
         birthdate |-> parse_date(r.BIRTHDATE),
         marital |-> none_if_na(r.MARITAL),
         deathdate |-> parse_date(r.DEATHDATE),
         zip |-> str_int_or_none(r.ZIP)],
        {"id", "birthdate"})

\* EncounterProfile.from_row, for the cells Id, START, STOP and REASONCODE
EncounterProfile_cls(r) ==
    cls("EncounterProfile",
        << "id", "start", "stop", "reasoncode" >>,
        [id |-> Value(r.Id),
         start |-> parse_datetime(r.START),
         stop |-> parse_datetime(r.STOP),
         reasoncode |-> float_or_none(r.REASONCODE)],
        {"id", "start", "stop"})

\* MedicationProfile.from_row, for the cells START, STOP, ENCOUNTER and
\* REASONCODE
MedicationProfile_cls(r) ==
    cls("MedicationProfile",
        << "start", "stop", "encounter", "reasoncode" >>,
        [start |-> parse_datetime(r.START),
         stop |-> parse_datetime(r.STOP),
         encounter |-> none_if_na(r.ENCOUNTER),
         reasoncode |-> float_or_none(r.REASONCODE)],
        {"start"})

----------------------------------------------------------------------------
(* Rows given to from_row cell by cell *)

\* the texts of the cells, character by character
RECURSIVE join(_, _)
join(parts, sep) ==
    IF Len(parts) = 1 THEN parts[1]
    ELSE parts[1] \o << sep >> \o join(Tail(parts), sep)
T2020 == << "2", "0", "2", "0" >>
T1999 == << "1", "9", "9", "9" >>
T01 == << "0", "1" >>
T02 == << "0", "2" >>
T12 == << "1", "2" >>
T13 == << "1", "3" >>
T31 == << "3", "1" >>
T45 == << "4", "5" >>
\* texts of the form YYYY-MM-DD that are calendar dates
CalendarDateTexts ==
    { join(<< T2020, T01, T02 >>, "-"), join(<< T1999, T12, T31 >>, "-") }
\* texts a date cell may hold that are not calendar dates in that form
OtherDateTexts ==
    { join(<< T2020, T13, T45 >>, "-"),
      join(<< << "1" >>, << "2" >>, << "3" >> >>, "-"),
      join(<< T2020, T01 >>, "-"),
      join(<< T2020, << "x", "x" >>, T02 >>, "-"),
      T2020 \o T01 \o T02 }
\* texts in the form YYYY-MM-DDTHH:MM:SSZ, the first later than the second
LaterDateTimeText ==
    join(<< T2020, T01, T02 >>, "-") \o << "T" >>
      \o join(<< << "1", "0" >>, << "3", "0" >>, << "0", "0" >> >>, ":") \o << "Z" >>
EarlierDateTimeText ==
    join(<< T2020, T01, T01 >>, "-") \o << "T" >>
      \o join(<< << "2", "3" >>, << "5", "9" >>, << "5", "9" >> >>, ":") \o << "Z" >>
\* texts a timestamp cell may hold that are not in that form, or not a time
OtherDateTimeTexts ==
    { join(<< T2020, T01, T02 >>, "-"),
      join(<< T2020, T13, T45 >>, "-") \o << "T" >>
        \o join(<< << "2", "5" >>, << "6", "1" >>, << "6", "1" >> >>, ":") \o << "Z" >>,
      join(<< T2020, T01, T02 >>, "-") \o << "T" >>
        \o join(<< << "1", "0" >>, << "3", "0" >> >>, ":") \o << "Z" >> }

\* the cells of a date column: missing, empty, a number, or a text
MissingCells == { NaNCell, Str(<< >>) }
DateCells ==
    MissingCells \cup { Num(2020) }
      \cup { Str(t) : t \in CalendarDateTexts \cup OtherDateTexts }
DateTimeCells ==
    MissingCells
      \cup { Str(t) : t \in {LaterDateTimeText, EarlierDateTimeText} \cup OtherDateTimeTexts }

PatientRows ==
    { [class |-> "PatientProfile", Id |-> Str(<< "P", "1" >>),
       BIRTHDATE |-> b, MARITAL |-> m, DEATHDATE |-> d, ZIP |-> z] :
        b \in DateCells,
        m \in MissingCells \cup { Str(<< "M" >>) },
        d \in MissingCells \cup { Str(join(<< T2020, T01, T02 >>, "-")),
                                  Str(join(<< T2020, T13, T45 >>, "-")) },
        z \in MissingCells \cup { Num(2134), Str(<< "0", "2", "1", "3", "4" >>) } }
EncounterRows ==
    { [class |-> "EncounterProfile", Id |-> Str(<< "E", "1" >>),
       START |-> a, STOP |-> b, REASONCODE |-> c] :
        a \in DateTimeCells, b \in DateTimeCells,
        c \in MissingCells \cup { Num(7) } }
MedicationRows ==
    { [class |-> "MedicationProfile", START |-> a, STOP |-> b,
       ENCOUNTER |-> e, REASONCODE |-> c] :
        a \in DateTimeCells, b \in DateTimeCells,
        e \in MissingCells \cup { Str(<< "E", "1" >>) },
        c \in MissingCells }

----------------------------------------------------------------------------
(* Initial state: the script has not been started *)

\* the output of a language-model call that raised
Raised == "<raised>"

EmptyFiles == [p \in {} |-> ""]

\* locals of main() that are not bound yet
NoEncounterProfile == [id |-> None, patient |-> None]
NoPatientProfile == [id |-> None]
NoTables == [n \in {} |-> << >>]

InitLocals ==
    /\ encounter_profile = NoEncounterProfile
    /\ patient_profile = NoPatientProfile
    /\ encounter_dataframes = NoTables
    /\ narrative = [c \in Categories |-> None]
    /\ table_index = 1
    /\ patient_narrative = None
    /\ encounter_narrative = None
    /\ documents_list = << >>
    /\ result = << >>
    /\ doc_index = 1
    /\ asked = 0
    /\ refined_document = None

InitProcess ==
    /\ ARGS = None
    /\ pyRandom = None
    /\ pc = "start"
    /\ error = None
    /\ InitLocals
    /\ calls = << >>

InitOutput ==
    /\ dirs = {}
    /\ files = EmptyFiles
    /\ writes = << >>
    /\ runs = << >>

\* no from_row is being looked at on its own
NoRow == [class |-> None]
NotBuilt == [built |-> FALSE]
\* no call is scheduled out of main()'s order
NoSavers == << >>
InitSchedule ==
    /\ summarized = {}
    /\ savers = NoSavers
InitRows ==
    /\ profile_class = None
    /\ cells = NoRow
    /\ record = NotBuilt
    /\ InitSchedule

\* any dataset of the family, an empty output directory
Init ==
    /\ dataframes \in Datasets
    /\ InitProcess
    /\ InitOutput
    /\ InitRows

\* the reference dataset, an empty output directory
InitRuns ==
    /\ dataframes = ReferenceTables
    /\ InitProcess
    /\ InitOutput
    /\ InitRows

----------------------------------------------------------------------------
(* Steps of main() *)

\* an exception leaves main(): the run is over
Raise(e) ==
    /\ pc' = "aborted"
    /\ error' = e
    /\ runs' = [runs EXCEPT ![Len(runs)].status = "aborted"]

\* main() goes on to p; reaching the end of main() completes the run
Goto(p) ==
    /\ pc' = p
    /\ error' = error
    /\ runs' = IF p = "done" THEN [runs EXCEPT ![Len(runs)].status = "done"]
               ELSE runs

\* whether main() called setup_mlflow, which turns on mlflow.dspy.autolog:
\* the script has no other logging of its language-model calls
autolog == ~ARGS.no_mlflow

\* a language-model call: what was called, with what, what came back, and
\* whether a trace of it was logged
Call(fn, input, out) ==
    calls' = Append(calls, [fn |-> fn, input |-> input, out |-> out,
                            raised |-> FALSE, traced |-> autolog])
\* a language-model call that raised
FailedCall(fn, input) ==
    calls' = Append(calls, [fn |-> fn, input |-> input, out |-> Raised,
                            raised |-> TRUE, traced |-> autolog])

\* parse_args, random.seed, setup_dspy, setup_mlflow, load_synthea_data
main ==
    /\ pc = "start"
    /\ \E a \in ArgChoices :
          /\ ARGS' = a
          /\ pyRandom' = a.seed
          /\ runs' = Append(runs, [encounter_id |-> a.encounter_id, seed |-> a.seed,
                                   selected |-> None, status |-> "running"])
    /\ pc' = "select"
    /\ UNCHANGED << rowVars, dataframes, error, locals, calls, fsVars >>

\* get_encounter that samples whether or not an id is given
get_encounter_always_sampling(dfs, encounter_id, py_seed) ==
    sample(dfs["encounters"].rows, py_seed)

\* the rows get_encounter may return; none when it raises ValueError
get_encounter(dfs, encounter_id, py_seed) ==
    IF Truthy(encounter_id)
    THEN LET rows == encounter_rows(dfs, encounter_id)
         IN  IF rows = << >> THEN {} ELSE {rows[1]}
    ELSE sample(dfs["encounters"].rows, py_seed)

\* get_encounter and EncounterProfile.from_row
select_encounter ==
    /\ pc = "select"
    /\ LET found == get_encounter(dataframes, ARGS.encounter_id, pyRandom)
       IN  \/ /\ found = {}
              /\ Raise("ValueError")
              /\ UNCHANGED encounter_profile
           \/ \E row \in found :
                 /\ ~row.required_ok
                 /\ Raise("ValidationError")
                 /\ UNCHANGED encounter_profile
           \/ \E row \in found :
                 /\ row.required_ok
                 /\ encounter_profile' = EncounterProfile_from_row(row)
                 /\ pc' = "patient"
                 /\ error' = error
                 /\ runs' = [runs EXCEPT ![Len(runs)].selected = row.Id]
    /\ UNCHANGED << rowVars, dataframes, ARGS, pyRandom, patient_profile,
                    encounter_dataframes, narrative, table_index,
                    patient_narrative, encounter_narrative, documents_list,
                    result, doc_index, asked, refined_document, calls, fsVars >>

\* the patient row of the encounter and PatientProfile.from_row
load_patient ==
    /\ pc = "patient"
    /\ LET rows == patient_rows(dataframes, encounter_profile.patient)
       IN  \/ /\ rows = << >>
              /\ Raise("IndexError")
              /\ UNCHANGED patient_profile
           \/ /\ rows # << >>
              /\ ~rows[1].required_ok
              /\ Raise("ValidationError")
              /\ UNCHANGED patient_profile
           \/ /\ rows # << >>
              /\ rows[1].required_ok
              /\ patient_profile' = PatientProfile_from_row(rows[1])
              /\ Goto("related")
    /\ UNCHANGED << rowVars, dataframes, ARGS, pyRandom, encounter_profile,
                    encounter_dataframes, narrative, table_index,
                    patient_narrative, encounter_narrative, documents_list,
                    result, doc_index, asked, refined_document, calls, fsVars >>

\* encounter_dataframes = get_encounter_related_data(...)
related_data ==
    /\ pc = "related"
    /\ encounter_dataframes' =
          get_encounter_related_data(dataframes, encounter_profile.id)
    /\ Goto("narratives")
    /\ UNCHANGED << rowVars, dataframes, ARGS, pyRandom, encounter_profile,
                    patient_profile, narrative, table_index,
                    patient_narrative, encounter_narrative, documents_list,
                    result, doc_index, asked, refined_document, calls, fsVars >>

\* a main() that goes from the first table's narrative to the fuser
AfterTable_straight_to_fuser ==
    /\ table_index' = table_index + 1
    /\ Goto("encounter_narrative")

\* after the call for one table: the next table, or the patient narrative
AfterTable ==
    /\ table_index' = table_index + 1
    /\ Goto(IF table_index = Len(CategoryOrder) THEN "patient_narrative"
            ELSE "narratives")

\* whether generate_narrative_for_table gets as far as its narrator
table_present(table_name, enc_dfs) == table_name \in DOMAIN enc_dfs

\* a generate_narrative_for_table that builds the profiles of every table
\* of the encounter before it calls the narrator of the first
generate_narrative_validating_every_table ==
    /\ pc = "narratives"
    /\ LET table_name == CategoryOrder[table_index]
           malformed ==
               \E c \in Categories \cap DOMAIN encounter_dataframes :
                   \E n \in 1..Len(encounter_dataframes[c]) :
                       ~encounter_dataframes[c][n].required_ok
       IN  \/ /\ malformed
              /\ Raise("ValidationError")
              /\ UNCHANGED << narrative, table_index, calls >>
           \/ /\ ~malformed
              /\ ~table_present(table_name, encounter_dataframes)
              /\ narrative' = [narrative EXCEPT ![table_name] = None]
              /\ AfterTable
              /\ UNCHANGED calls
           \/ /\ ~malformed
              /\ table_present(table_name, encounter_dataframes)
              /\ \E out \in NarrativeTexts(table_name) :
                    /\ Call(narrator_function(table_name),
                            profiles_of(encounter_dataframes[table_name]), out)
                    /\ narrative' = [narrative EXCEPT ![table_name] = out]
              /\ AfterTable
    /\ UNCHANGED << rowVars, dataframes, ARGS, pyRandom, encounter_profile,
                    patient_profile, encounter_dataframes,
                    patient_narrative, encounter_narrative, documents_list,
                    result, doc_index, asked, refined_document, fsVars >>

\* one call of generate_narrative_for_table, for the next table
generate_narrative_for_table ==
    /\ pc = "narratives"
    /\ LET table_name == CategoryOrder[table_index]
       IN  \/ /\ ~table_present(table_name, encounter_dataframes)
              /\ narrative' = [narrative EXCEPT ![table_name] = None]
              /\ AfterTable
              /\ UNCHANGED calls
           \/ /\ table_present(table_name, encounter_dataframes)
              /\ LET rows == encounter_dataframes[table_name]
                 IN  \/ /\ \E n \in 1..Len(rows) : ~rows[n].required_ok
                        /\ Raise("ValidationError")
                        /\ UNCHANGED << narrative, table_index, calls >>
                     \/ /\ \A n \in 1..Len(rows) : rows[n].required_ok
                        /\ \E out \in NarrativeTexts(table_name) :
                              /\ Call(narrator_function(table_name), profiles_of(rows), out)
                              /\ narrative' = [narrative EXCEPT ![table_name] = out]
                        /\ AfterTable
                     \/ /\ \A n \in 1..Len(rows) : rows[n].required_ok
                        /\ FailedCall(narrator_function(table_name), profiles_of(rows))
                        /\ Raise("ReasoningEngineError")
                        /\ UNCHANGED << narrative, table_index >>
    /\ UNCHANGED << rowVars, dataframes, ARGS, pyRandom, encounter_profile,
                    patient_profile, encounter_dataframes,
                    patient_narrative, encounter_narrative, documents_list,
                    result, doc_index, asked, refined_document, fsVars >>

\* patient_narrative = generate_patient_narrative(patient_profile)
generate_patient_narrative ==
    /\ pc = "patient_narrative"
    /\ \/ /\ Call("generate_patient_narrative", patient_profile, PatientNarrativeText)
          /\ patient_narrative' = PatientNarrativeText
          /\ Goto("encounter_narrative")
       \/ /\ FailedCall("generate_patient_narrative", patient_profile)
          /\ Raise("ReasoningEngineError")
          /\ UNCHANGED patient_narrative
    /\ UNCHANGED << rowVars, dataframes, ARGS, pyRandom, encounter_profile,
                    patient_profile, encounter_dataframes, narrative,
                    table_index, encounter_narrative, documents_list,
                    result, doc_index, asked, refined_document, fsVars >>

\* encounter_narrative = generate_encounter_narrative(...)
generate_encounter_narrative ==
    /\ pc = "encounter_narrative"
    /\ LET input == encounter_narrative_input(encounter_profile,
                                              patient_narrative, narrative)
       IN  \/ /\ Call("generate_encounter_narrative", input, EncounterNarrativeText)
              /\ encounter_narrative' = EncounterNarrativeText
              /\ Goto("documents_list")
           \/ /\ FailedCall("generate_encounter_narrative", input)
              /\ Raise("ReasoningEngineError")
              /\ UNCHANGED encounter_narrative
    /\ UNCHANGED << rowVars, dataframes, ARGS, pyRandom, encounter_profile,
                    patient_profile, encounter_dataframes, narrative,
                    table_index, patient_narrative, documents_list,
                    result, doc_index, asked, refined_document, fsVars >>

\* documents_list = generate_documents_list(encounter_narrative)
generate_documents_list ==
    /\ pc = "documents_list"
    /\ \/ \E docs \in DocLists :
             /\ Call("generate_documents_list", encounter_narrative, docs)
             /\ documents_list' = docs
             /\ Goto("print_documents")
       \/ /\ FailedCall("generate_documents_list", encounter_narrative)
          /\ Raise("ReasoningEngineError")
          /\ UNCHANGED documents_list
    /\ UNCHANGED << rowVars, dataframes, ARGS, pyRandom, encounter_profile,
                    patient_profile, encounter_dataframes, narrative,
                    table_index, patient_narrative, encounter_narrative,
                    result, doc_index, asked, refined_document, fsVars >>

\* doc["type"] and doc["description"] both succeed
well_formed(doc) == {"type", "description"} \subseteq DOMAIN doc

\* a listing step that reads the keys of the first entry only
print_documents_list_first_entry_only ==
    /\ pc = "print_documents"
    /\ \/ /\ documents_list # << >>
          /\ ~well_formed(documents_list[1])
          /\ Raise("KeyError")
       \/ /\ documents_list # << >>
          /\ well_formed(documents_list[1])
          /\ Goto("write")
       \/ /\ documents_list = << >>
          /\ Goto("done")
    /\ UNCHANGED << rowVars, dataframes, ARGS, pyRandom, locals, calls, fsVars >>

\* the listing step of a main() that needs a first document
print_documents_list_needing_one ==
    /\ pc = "print_documents"
    /\ \/ /\ documents_list = << >>
          /\ Raise("IndexError")
       \/ /\ \E n \in 1..Len(documents_list) : ~well_formed(documents_list[n])
          /\ Raise("KeyError")
       \/ /\ documents_list # << >>
          /\ \A n \in 1..Len(documents_list) : well_formed(documents_list[n])
          /\ Goto("write")
    /\ UNCHANGED << rowVars, dataframes, ARGS, pyRandom, locals, calls, fsVars >>

\* the loop that prints the predicted documents, then result = []
print_documents_list ==
    /\ pc = "print_documents"
    /\ \/ /\ \E n \in 1..Len(documents_list) : ~well_formed(documents_list[n])
          /\ Raise("KeyError")
       \/ /\ \A n \in 1..Len(documents_list) : well_formed(documents_list[n])
          /\ Goto(IF documents_list = << >> THEN "done" ELSE "write")
    /\ UNCHANGED << rowVars, dataframes, ARGS, pyRandom, locals, calls, fsVars >>

\* the writer calls its tool: ask_head_physician -> ask_head_physician_wrapper
ask_head_physician ==
    /\ pc = "write"
    /\ asked < MaxOracleCalls
    /\ asked' = asked + 1
    /\ LET input == [user_question |-> "question",
                     encounter_narratives |->
                        head_physician_narratives(encounter_narrative,
                                                  patient_narrative, narrative)]
       IN  \/ /\ Call("ask_head_physician_wrapper", input, AnswerText)
              /\ Goto("write")
           \/ /\ FailedCall("ask_head_physician_wrapper", input)
              /\ Goto("write")
           \/ /\ FailedCall("ask_head_physician_wrapper", input)
              /\ Raise("ReasoningEngineError")
    /\ UNCHANGED << rowVars, dataframes, ARGS, pyRandom, encounter_profile,
                    patient_profile, encounter_dataframes, narrative,
                    table_index, patient_narrative, encounter_narrative,
                    documents_list, result, doc_index, refined_document,
                    fsVars >>

\* a first loop of main() that goes on to the refiner after one document
doc_writer_then_refine ==
    /\ pc = "write"
    /\ LET doc == documents_list[doc_index]
           input == [document_type |-> doc.type, description |-> doc.description]
           document == DocumentText(doc.type, doc.description)
       IN  \/ /\ Call("doc_writer", input, document)
              /\ result' = Append(result, [content |-> document,
                                           document_type |-> doc.type])
              /\ asked' = 0
              /\ doc_index' = doc_index
              /\ Goto("refine")
           \/ /\ FailedCall("doc_writer", input)
              /\ Raise("ReasoningEngineError")
              /\ UNCHANGED << result, asked, doc_index >>
    /\ UNCHANGED << rowVars, dataframes, ARGS, pyRandom, encounter_profile,
                    patient_profile, encounter_dataframes, narrative,
                    table_index, patient_narrative, encounter_narrative,
                    documents_list, refined_document, fsVars >>

\* doc_writer(...) returns the document; result.append(GeneratedDocument)
doc_writer ==
    /\ pc = "write"
    /\ LET doc == documents_list[doc_index]
           input == [document_type |-> doc.type, description |-> doc.description]
           document == DocumentText(doc.type, doc.description)
       IN  \/ /\ Call("doc_writer", input, document)
              /\ result' = Append(result, [content |-> document,
                                           document_type |-> doc.type])
              /\ asked' = 0
              /\ doc_index' = IF doc_index = Len(documents_list) THEN 1
                              ELSE doc_index + 1
              /\ Goto(IF doc_index = Len(documents_list) THEN "refine" ELSE "write")
           \/ /\ FailedCall("doc_writer", input)
              /\ Raise("ReasoningEngineError")
              /\ UNCHANGED << result, asked, doc_index >>
    /\ UNCHANGED << rowVars, dataframes, ARGS, pyRandom, encounter_profile,
                    patient_profile, encounter_dataframes, narrative,
                    table_index, patient_narrative, encounter_narrative,
                    documents_list, refined_document, fsVars >>

\* a second loop of main() that refines the first document every time
refine_first_document_again ==
    /\ pc = "refine"
    /\ LET doc == result[1]
           input == [document_type |-> doc.document_type,
                     original_document |-> doc.content]
       IN  \/ \E realistic \in RealisticTexts(doc.document_type, doc.content) :
                 /\ Call("refiner", input, realistic)
                 /\ refined_document' = realistic
                 /\ Goto("save")
           \/ /\ FailedCall("refiner", input)
              /\ Raise("ReasoningEngineError")
              /\ UNCHANGED refined_document
    /\ UNCHANGED << rowVars, dataframes, ARGS, pyRandom, encounter_profile,
                    patient_profile, encounter_dataframes, narrative,
                    table_index, patient_narrative, encounter_narrative,
                    documents_list, result, doc_index, asked, fsVars >>

\* refined_document = refiner(...).realistic_document
refine ==
    /\ pc = "refine"
    /\ LET doc == result[doc_index]
           input == [document_type |-> doc.document_type,
                     original_document |-> doc.content]
       IN  \/ \E realistic \in RealisticTexts(doc.document_type, doc.content) :
                 /\ Call("refiner", input, realistic)
                 /\ refined_document' = realistic
                 /\ Goto("save")
           \/ /\ FailedCall("refiner", input)
              /\ Raise("ReasoningEngineError")
              /\ UNCHANGED refined_document
    /\ UNCHANGED << rowVars, dataframes, ARGS, pyRandom, encounter_profile,
                    patient_profile, encounter_dataframes, narrative,
                    table_index, patient_narrative, encounter_narrative,
                    documents_list, result, doc_index, asked, fsVars >>

\* save_document(refined_document, doc.document_type, encounter_profile.id)
save_document ==
    /\ pc = "save"
    /\ LET encounter_id == encounter_profile.id
           path == output_file(dirs, files, encounter_id)
           output_dir == << path[1], path[2] >>
       IN  \/ /\ dirs' = dirs \cup { << encounter_id >>, output_dir }
              /\ files' = write_file(files, path, refined_document)
              /\ writes' = Append(writes, [run |-> Len(runs), document |-> doc_index,
                                           path |-> path,
                                           existed |-> path \in DOMAIN files,
                                           content |-> refined_document])
              /\ doc_index' = doc_index + 1
              /\ Goto(IF doc_index = Len(result) THEN "done" ELSE "refine")
           \/ \* mkdir raises
              /\ Raise("OSError")
              /\ UNCHANGED << dirs, files, writes, doc_index >>
           \/ \* open raises after mkdir made the directory
              /\ dirs' = dirs \cup { << encounter_id >>, output_dir }
              /\ Raise("OSError")
              /\ UNCHANGED << files, writes, doc_index >>
    /\ UNCHANGED << rowVars, dataframes, ARGS, pyRandom, encounter_profile,
                    patient_profile, encounter_dataframes, narrative,
                    table_index, patient_narrative, encounter_narrative,
                    documents_list, result, asked, refined_document, calls >>

\* the script is started again on the same data and output directories
invoke_again ==
    /\ pc \in {"done", "aborted"}
    /\ Len(runs) < MaxRuns
    /\ ARGS' = None
    /\ pyRandom' = None
    /\ pc' = "start"
    /\ error' = None
    /\ encounter_profile' = NoEncounterProfile
    /\ patient_profile' = NoPatientProfile
    /\ encounter_dataframes' = NoTables
    /\ narrative' = [c \in Categories |-> None]
    /\ table_index' = 1
    /\ patient_narrative' = None
    /\ encounter_narrative' = None
    /\ documents_list' = << >>
    /\ result' = << >>
    /\ doc_index' = 1
    /\ asked' = 0
    /\ refined_document' = None
    /\ calls' = << >>
    /\ UNCHANGED << rowVars, dataframes, fsVars, runs >>

----------------------------------------------------------------------------
(* Specifications *)

\* one run of the script
Next ==
    \/ main
    \/ select_encounter
    \/ load_patient
    \/ related_data
    \/ generate_narrative_for_table
    \/ generate_patient_narrative
    \/ generate_encounter_narrative
    \/ generate_documents_list
    \/ print_documents_list
    \/ ask_head_physician
    \/ doc_writer
    \/ refine
    \/ save_document

Spec == Init /\ [][Next]_vars

\* consecutive runs of the script against one output directory
NextRuns == Next \/ invoke_again

SpecRuns == InitRuns /\ [][NextRuns]_vars

\* one row handed to the from_row of its class
InitFromRow ==
    /\ dataframes = ReferenceTables
    /\ InitProcess
    /\ InitOutput
    /\ cells \in PatientRows \cup EncounterRows \cup MedicationRows
    /\ profile_class = cells.class
    /\ record = NotBuilt
    /\ InitSchedule

\* profile_class.from_row(row) returns or raises
from_row(built) ==
    /\ record = NotBuilt
    /\ record' = built
    /\ UNCHANGED << dataframes, ARGS, pyRandom, pc, error, locals, calls,
                    fsVars, runs, profile_class, cells, scheduleVars >>

PatientProfile_from_cells ==
    /\ profile_class = "PatientProfile"
    /\ from_row(PatientProfile_cls(cells))

EncounterProfile_from_cells ==
    /\ profile_class = "EncounterProfile"
    /\ from_row(EncounterProfile_cls(cells))

MedicationProfile_from_cells ==
    /\ profile_class = "MedicationProfile"
    /\ from_row(MedicationProfile_cls(cells))

NextFromRow ==
    \/ PatientProfile_from_cells
    \/ EncounterProfile_from_cells
    \/ MedicationProfile_from_cells

SpecFromRow == InitFromRow /\ [][NextFromRow]_vars

\* after a call made out of order: the patient narrative once every table
\* had its call
AfterAnyTable(table_name) ==
    /\ summarized' = summarized \cup {table_name}
    /\ Goto(IF summarized \cup {table_name} = Categories
            THEN "patient_narrative" ELSE "narratives")

\* a main() whose narrative calls bind by the order they finish in: the
\* k-th call to return is bound to the k-th narrative local
generate_narrative_bound_by_completion ==
    /\ pc = "narratives"
    /\ \E table_name \in Categories \ summarized :
          LET slot == CategoryOrder[Cardinality(summarized) + 1]
          IN  \/ /\ ~table_present(table_name, encounter_dataframes)
                 /\ narrative' = [narrative EXCEPT ![slot] = None]
                 /\ AfterAnyTable(table_name)
                 /\ UNCHANGED calls
              \/ /\ table_present(table_name, encounter_dataframes)
                 /\ LET rows == encounter_dataframes[table_name]
                    IN  /\ \A n \in 1..Len(rows) : rows[n].required_ok
                        /\ \E out \in NarrativeTexts(table_name) :
                              /\ Call(narrator_function(table_name), profiles_of(rows), out)
                              /\ narrative' = [narrative EXCEPT ![slot] = out]
                        /\ AfterAnyTable(table_name)
    /\ UNCHANGED << profile_class, cells, record, savers, dataframes, ARGS,
                    pyRandom, encounter_profile, patient_profile,
                    encounter_dataframes, table_index, patient_narrative,
                    encounter_narrative, documents_list, result, doc_index,
                    asked, refined_document, fsVars >>

\* the generate_narrative_for_table calls of main() taken in any order: the
\* call for any table that has not had its call yet, its result bound to
\* that table's narrative local
generate_narrative_in_any_order ==
    /\ pc = "narratives"
    /\ \E table_name \in Categories \ summarized :
          \/ /\ ~table_present(table_name, encounter_dataframes)
             /\ narrative' = [narrative EXCEPT ![table_name] = None]
             /\ AfterAnyTable(table_name)
             /\ UNCHANGED calls
          \/ /\ table_present(table_name, encounter_dataframes)
             /\ LET rows == encounter_dataframes[table_name]
                IN  \/ /\ \E n \in 1..Len(rows) : ~rows[n].required_ok
                       /\ Raise("ValidationError")
                       /\ UNCHANGED << narrative, summarized, calls >>
                    \/ /\ \A n \in 1..Len(rows) : rows[n].required_ok
                       /\ \E out \in NarrativeTexts(table_name) :
                             /\ Call(narrator_function(table_name), profiles_of(rows), out)
                             /\ narrative' = [narrative EXCEPT ![table_name] = out]
                       /\ AfterAnyTable(table_name)
                    \/ /\ \A n \in 1..Len(rows) : rows[n].required_ok
                       /\ FailedCall(narrator_function(table_name), profiles_of(rows))
                       /\ Raise("ReasoningEngineError")
                       /\ UNCHANGED << narrative, summarized >>
    /\ UNCHANGED << profile_class, cells, record, savers, dataframes, ARGS,
                    pyRandom, encounter_profile, patient_profile,
                    encounter_dataframes, table_index, patient_narrative,
                    encounter_narrative, documents_list, result, doc_index,
                    asked, refined_document, fsVars >>

\* one run of the script up to the writer's questions, the narrative calls
\* taken in any order
NextAnyOrder ==
    \/ main
    \/ select_encounter
    \/ load_patient
    \/ related_data
    \/ generate_narrative_in_any_order
    \/ generate_patient_narrative
    \/ generate_encounter_narrative
    \/ generate_documents_list
    \/ print_documents_list
    \/ ask_head_physician

SpecAnyOrder == InitRuns /\ [][NextAnyOrder]_vars

\* two save_document calls for one encounter run side by side, each at its
\* own line of save_document, over an output directory that holds the
\* variants of earlier runs
Savers == {"first", "second"}
SavedEncounter == "E1"
SaverDocument(i) == RealisticText("A", DocumentText("A", "about A")) \o " of the " \o i
EarlierVariants == {0, 1, 2}
VariantDirs(k) ==
    IF k = 0 THEN {}
    ELSE { << SavedEncounter >> } \cup { << SavedEncounter, v >> : v \in 0..(k - 1) }
VariantFiles(k) ==
    [p \in { << SavedEncounter, v, 0 >> : v \in 0..(k - 1) } |-> "earlier document"]

InitSavers ==
    /\ dataframes = ReferenceTables
    /\ InitProcess
    /\ runs = << >>
    /\ writes = << >>
    /\ \E k \in EarlierVariants :
          /\ dirs = VariantDirs(k)
          /\ files = VariantFiles(k)
    /\ profile_class = None
    /\ cells = NoRow
    /\ record = NotBuilt
    /\ summarized = {}
    /\ savers = [i \in Savers |->
                    [line |-> "dir_exists", variant |-> 0, document_counter |-> 0]]

SaverLeaves ==
    UNCHANGED << dataframes, ARGS, pyRandom, pc, error, locals, calls, runs,
                 profile_class, cells, record, summarized >>

\* while output_dir.exists(): variant = str(int(variant) + 1)
output_dir_exists(i) ==
    /\ savers[i].line = "dir_exists"
    /\ savers' =
          IF << SavedEncounter, savers[i].variant >> \in dirs
          THEN [savers EXCEPT ![i].variant = @ + 1]
          ELSE [savers EXCEPT ![i].line = "mkdir"]
    /\ UNCHANGED fsVars
    /\ SaverLeaves

\* output_dir.mkdir(parents=True, exist_ok=True)
output_dir_mkdir(i) ==
    /\ savers[i].line = "mkdir"
    /\ dirs' = dirs \cup { << SavedEncounter >>,
                           << SavedEncounter, savers[i].variant >> }
    /\ savers' = [savers EXCEPT ![i].line = "file_exists"]
    /\ UNCHANGED << files, writes >>
    /\ SaverLeaves

\* while output_file.exists(): document_counter += 1
output_file_exists(i) ==
    /\ savers[i].line = "file_exists"
    /\ savers' =
          IF << SavedEncounter, savers[i].variant, savers[i].document_counter >>
                \in DOMAIN files
          THEN [savers EXCEPT ![i].document_counter = @ + 1]
          ELSE [savers EXCEPT ![i].line = "open"]
    /\ UNCHANGED fsVars
    /\ SaverLeaves

\* with open(output_file, "w") as f: f.write(document)
output_file_write(i) ==
    /\ savers[i].line = "open"
    /\ LET path == << SavedEncounter, savers[i].variant,
                      savers[i].document_counter >>
       IN  /\ files' = write_file(files, path, SaverDocument(i))
           /\ writes' = Append(writes, [run |-> i, document |-> 1, path |-> path,
                                        existed |-> path \in DOMAIN files,
                                        content |-> SaverDocument(i)])
    /\ savers' = [savers EXCEPT ![i].line = "returned"]
    /\ UNCHANGED dirs
    /\ SaverLeaves

NextSavers ==
    \E i \in Savers :
        \/ output_dir_exists(i)
        \/ output_dir_mkdir(i)
        \/ output_file_exists(i)
        \/ output_file_write(i)

SpecSavers == InitSavers /\ [][NextSavers]_vars

----------------------------------------------------------------------------
(* Vocabulary of the properties *)

\* the current run has started and its command line is parsed
Started == Len(runs) >= 1 /\ pc # "start"
\* the Id of the encounter the current run selected, or None
Selected == runs[Len(runs)].selected
\* the table of category c holds a row whose ENCOUNTER cell is id
HasRows(c, id) ==
    /\ c \in DOMAIN dataframes
    /\ \E n \in 1..Len(dataframes[c].rows) : dataframes[c].rows[n].ENCOUNTER = id
\* the positions in the call log of the calls of fn
CallsOf(fn) == { n \in 1..Len(calls) : calls[n].fn = fn }
\* the Ids of the encounters table
EncounterIds ==
    { dataframes["encounters"].rows[n].Id :
        n \in 1..Len(dataframes["encounters"].rows) }
\* the files the run r wrote, in order
WritesOf(r) == SelectSeq(writes, LAMBDA w : w.run = r)

----------------------------------------------------------------------------
(* C1 *)

\* C1: a category with no row for the selected encounter (table empty, rows
\* of other encounters only, or table not loaded) never has its summarizer
\* called, its narrative local is None while the fuser and the predictor
\* run, and the fuser is handed None in its slot.
C1_AbsentCategoryIsNone ==
    \A c \in Categories :
        (Started /\ Selected # None /\ ~HasRows(c, Selected)) =>
            /\ CallsOf(narrator_function(c)) = {}
            /\ pc \in {"encounter_narrative", "documents_list", "print_documents"}
                  => narrative[c] = None
            /\ \A n \in CallsOf("generate_encounter_narrative") :
                  calls[n].input[narrative_slot(c)] = None

\* the predictor has returned for an encounter that has a summarized
\* category, a loaded category table with no row of it, and a category
\* whose table is not loaded
C1_Witness ==
    /\ pc = "print_documents"
    /\ \E c \in Categories : CallsOf(narrator_function(c)) # {}
    /\ \E c \in Categories :
          /\ c \in DOMAIN dataframes
          /\ dataframes[c].rows # << >>
          /\ ~HasRows(c, Selected)
          /\ narrative[c] = None
    /\ \E c \in Categories : c \notin DOMAIN dataframes /\ narrative[c] = None

----------------------------------------------------------------------------
(* C2 *)

\* C2: the run calls the fuser at most once, and that call is handed the
\* selected encounter's profile, the patient narrator's output, in the slot
\* of every category with a row of the encounter the text that category's
\* own summarizer returned, and None in the slot of every other category.
C2_FuserSlots ==
    /\ Cardinality(CallsOf("generate_encounter_narrative")) <= 1
    /\ \A n \in CallsOf("generate_encounter_narrative") :
          /\ calls[n].input.encounter_profile.id = Selected
          /\ \E m \in CallsOf("generate_patient_narrative") :
                /\ m < n
                /\ ~calls[m].raised
                /\ calls[n].input.patient_profile_narrative = calls[m].out
          /\ \A c \in Categories :
                IF HasRows(c, Selected)
                THEN /\ calls[n].input[narrative_slot(c)] # None
                     /\ \E m \in CallsOf(narrator_function(c)) :
                           /\ m < n
                           /\ ~calls[m].raised
                           /\ calls[n].input[narrative_slot(c)] = calls[m].out
                ELSE calls[n].input[narrative_slot(c)] = None

\* the fuser was called for an encounter with exactly observations and
\* medications, whose summarizers returned different texts
C2_Witness ==
    \E n \in CallsOf("generate_encounter_narrative") :
        /\ { c \in Categories : HasRows(c, Selected) } = {"observations", "medications"}
        /\ calls[n].input.observations_narrative = ""
        /\ calls[n].input.medications_narrative = "narrative of medications"
        /\ calls[n].input.procedures_narrative = None

\* the fuser was called for an encounter with three categories
C2_WitnessThree ==
    \E n \in CallsOf("generate_encounter_narrative") :
        Cardinality({ c \in Categories : HasRows(c, Selected) }) = 3

----------------------------------------------------------------------------
(* C3 *)

\* C3: once a run given an --encounter-id value that matches no row of the
\* encounters table is past encounter selection, it has aborted with the
\* lookup error of get_encounter, made no language-model call and written
\* nothing.
C3_UnknownIdAborts ==
    (/\ Started
     /\ pc # "select"
     /\ ARGS.encounter_id # None
     /\ ARGS.encounter_id \notin EncounterIds)
        => /\ pc = "aborted"
           /\ error = "ValueError"
           /\ calls = << >>
           /\ WritesOf(Len(runs)) = << >>

\* the same for every non-empty --encounter-id value
C3_UnknownNonEmptyIdAborts ==
    (/\ Started
     /\ pc # "select"
     /\ Truthy(ARGS.encounter_id)
     /\ ARGS.encounter_id \notin EncounterIds)
        => /\ pc = "aborted"
           /\ error = "ValueError"
           /\ calls = << >>
           /\ WritesOf(Len(runs)) = << >>
           /\ dirs = {}

----------------------------------------------------------------------------
(* C4 *)

\* C4: a run that aborts on a malformed source row (from_row raised) has
\* made no language-model call.
C4_MalformedRowBeforeAnyCall ==
    (pc = "aborted" /\ error = "ValidationError") => calls = << >>

----------------------------------------------------------------------------
(* C5 *)

\* C5: every save wrote to a path that did not exist just before it, no two
\* saves (of one run or of different runs, for one encounter or several)
\* wrote to the same path, and every file ever written still holds the
\* document that save wrote.
C5_NeverOverwrites ==
    /\ \A n \in 1..Len(writes) : ~writes[n].existed
    /\ \A m, n \in 1..Len(writes) : m # n => writes[m].path # writes[n].path
    /\ \A n \in 1..Len(writes) :
          /\ writes[n].path \in DOMAIN files
          /\ files[writes[n].path] = writes[n].content

\* the second of two runs for the same encounter has saved two documents
\* after the first run saved some
C5_Witness ==
    /\ Len(runs) = 2
    /\ runs[1].selected = runs[2].selected
    /\ Len(WritesOf(1)) >= 1
    /\ Len(WritesOf(2)) = 2

\* runs for two different encounters have both saved documents
C5_WitnessTwoEncounters ==
    /\ Len(runs) = 2
    /\ runs[1].selected # runs[2].selected
    /\ Len(WritesOf(1)) >= 1
    /\ Len(WritesOf(2)) >= 1

----------------------------------------------------------------------------
(* C6 *)

\* C6: when the first two runs against an empty output directory are both
\* completed runs for E1 that saved at least one document each, every file
\* of the first is under E1/0 and every file of the second under E1/1.
C6_RunsInSiblingVariants ==
    (/\ Len(runs) >= 2
     /\ runs[1].selected = "E1" /\ runs[1].status = "done"
     /\ runs[2].selected = "E1" /\ runs[2].status = "done"
     /\ Len(WritesOf(1)) >= 1
     /\ Len(WritesOf(2)) >= 1)
        => \A n \in 1..Len(writes) :
              /\ writes[n].run = 1 => << writes[n].path[1], writes[n].path[2] >> = << "E1", 0 >>
              /\ writes[n].run = 2 => << writes[n].path[1], writes[n].path[2] >> = << "E1", 1 >>

----------------------------------------------------------------------------
(* C7 *)

\* C7: the files one run saved are all in one variant directory and the
\* file of the i-th document (counting from 0) is named i.txt.
C7_OneVariantPerRun ==
    \A m, n \in 1..Len(writes) :
        writes[m].run = writes[n].run =>
            /\ << writes[m].path[1], writes[m].path[2] >>
                  = << writes[n].path[1], writes[n].path[2] >>
            /\ writes[n].path[3] = writes[n].document - 1

----------------------------------------------------------------------------
(* C8 *)

\* C8: two runs on the same encounters table without --encounter-id and
\* with the same --seed that both selected an encounter selected the same.
C8_SameSeedSameEncounter ==
    \A a, b \in 1..Len(runs) :
        (/\ runs[a].encounter_id = None /\ runs[b].encounter_id = None
         /\ runs[a].seed = runs[b].seed
         /\ runs[a].selected # None /\ runs[b].selected # None)
            => runs[a].selected = runs[b].selected

----------------------------------------------------------------------------
(* C9 *)

\* the PATIENT cell of the encounters row with this Id
PatientOf(id) ==
    LET rows == dataframes["encounters"].rows
    IN  rows[CHOOSE n \in 1..Len(rows) : rows[n].Id = id].PATIENT

\* C9: a run given an --encounter-id that is an Id of the encounters table
\* selects no other encounter: the profile it builds has that id, the
\* patient profile it loads is that of the encounter's patient, the tables
\* it keeps and the profiles it hands to the summarizers hold rows of that
\* encounter only, and every file it saves is under that id's directory.
C9_ExplicitIdIsProcessed ==
    (Started /\ pc # "select" /\ ARGS.encounter_id \in EncounterIds) =>
        /\ Selected \in {None, ARGS.encounter_id}
        /\ Selected = None => pc = "aborted"
        /\ encounter_profile.id = Selected
        /\ patient_profile.id \in {None, PatientOf(ARGS.encounter_id)}
        /\ (pc \notin {"patient", "aborted"}) =>
              patient_profile.id = PatientOf(ARGS.encounter_id)
        /\ \A t \in DOMAIN encounter_dataframes :
              \A n \in 1..Len(encounter_dataframes[t]) :
                  encounter_dataframes[t][n].ENCOUNTER = ARGS.encounter_id
        /\ \A c \in Categories : \A n \in CallsOf(narrator_function(c)) :
              \A j \in 1..Len(calls[n].input) :
                  calls[n].input[j].encounter = ARGS.encounter_id
        /\ \A n \in CallsOf("generate_encounter_narrative") :
              calls[n].input.encounter_profile.id = ARGS.encounter_id
        /\ \A n \in 1..Len(writes) :
              writes[n].run = Len(runs) => writes[n].path[1] = ARGS.encounter_id

\* a completed run for --encounter-id E2, which is not the first row of the
\* encounters table, has summarized rows of E2 and saved a file
C9_Witness ==
    /\ pc = "done"
    /\ ARGS.encounter_id = "E2"
    /\ CallsOf("generate_patient_narrative") # {}
    /\ \E c \in Categories : CallsOf(narrator_function(c)) # {}
    /\ Len(WritesOf(Len(runs))) >= 1

----------------------------------------------------------------------------
(* C10 *)

\* C10: once the predictor has returned the empty list, the run makes no
\* writer, oracle or refiner call, creates no file and no directory, never
\* aborts, and is either about to list the documents or done.
C10_EmptyPredictionCompletes ==
    (\E n \in CallsOf("generate_documents_list") :
        ~calls[n].raised /\ Len(calls[n].out) = 0)
        => /\ CallsOf("doc_writer") = {}
           /\ CallsOf("ask_head_physician_wrapper") = {}
           /\ CallsOf("refiner") = {}
           /\ WritesOf(Len(runs)) = << >>
           /\ dirs = {}
           /\ DOMAIN files = {}
           /\ error = None
           /\ pc \in {"print_documents", "done"}
           /\ pc = "print_documents" => ENABLED print_documents_list

\* a run whose predictor returned the empty list is done
C10_Witness ==
    /\ pc = "done"
    /\ runs[Len(runs)].status = "done"
    /\ \E n \in CallsOf("generate_documents_list") :
          ~calls[n].raised /\ Len(calls[n].out) = 0

----------------------------------------------------------------------------
(* C11 *)

\* the index cells of the rows of table c that reference encounter id, in
\* the order of the table
RowsOf(c, id) ==
    LET kept == SelectSeq(dataframes[c].rows, LAMBDA r : r.ENCOUNTER = id)
    IN  [n \in 1..Len(kept) |-> kept[n].index]

\* C11: every call of a category's summarizer is handed profiles whose
\* encounter reference is the selected encounter's id, never one with no
\* reference or another encounter's, and they are exactly the rows of that
\* category's table that reference the selected encounter, in table order.
C11_OnlyRowsOfSelectedEncounter ==
    \A c \in Categories : \A n \in CallsOf(narrator_function(c)) :
        /\ Selected # None
        /\ \A j \in 1..Len(calls[n].input) :
              /\ calls[n].input[j].encounter = Selected
              /\ calls[n].input[j].encounter # None
        /\ [j \in 1..Len(calls[n].input) |-> calls[n].input[j].row]
              = RowsOf(c, Selected)

\* the observations summarizer was handed rows 1 and 3 of a table whose
\* row 2 belongs to another encounter, in a dataset that also has a row
\* with no encounter reference
C11_Witness ==
    /\ \E n \in CallsOf(narrator_function("observations")) :
          /\ Len(calls[n].input) = 2
          /\ calls[n].input[1].row = 1
          /\ calls[n].input[2].row = 3
          /\ Len(dataframes["observations"].rows) = 3
    /\ \E c \in Categories : HasRows(c, NaN)

----------------------------------------------------------------------------
(* C12 *)

\* the categories with a row of encounter id, in the order of main()
PresentCategories(id) == SelectSeq(CategoryOrder, LAMBDA c : HasRows(c, id))

\* C12: every call of the head physician is handed the question and the
\* fused encounter narrative, the patient narrative and the narrative of
\* every category with a row of the selected encounter, whatever text its
\* summarizer returned, and the narrative of no other category.
C12_OracleGetsEveryPresentNarrative ==
    \A n \in CallsOf("ask_head_physician_wrapper") :
        LET present == PresentCategories(Selected)
        IN  /\ calls[n].input.user_question = "question"
            /\ calls[n].input.encounter_narratives =
                  << encounter_narrative, patient_narrative >>
                    \o [k \in 1..Len(present) |-> narrative[present[k]]]

\* the same for the categories whose summarizer returned a non-empty text
C12_OracleGetsEveryNonEmptyNarrative ==
    \A n \in CallsOf("ask_head_physician_wrapper") :
        LET present == SelectSeq(PresentCategories(Selected),
                                 LAMBDA c : narrative[c] # "")
        IN  calls[n].input.encounter_narratives =
                << encounter_narrative, patient_narrative >>
                  \o [k \in 1..Len(present) |-> narrative[present[k]]]

----------------------------------------------------------------------------
(* C13 *)

\* no call main() makes is made more often than main() has use for it: each
\* summarizer, the patient narrator, the fuser and the predictor once, the
\* writer and the refiner once per predicted document
AtMostOnce ==
    /\ \A c \in Categories : Cardinality(CallsOf(narrator_function(c))) <= 1
    /\ Cardinality(CallsOf("generate_patient_narrative")) <= 1
    /\ Cardinality(CallsOf("generate_encounter_narrative")) <= 1
    /\ Cardinality(CallsOf("generate_documents_list")) <= 1
    /\ Cardinality(CallsOf("doc_writer")) <= Len(documents_list)
    /\ Cardinality(CallsOf("refiner")) <= Len(documents_list)

\* C13: no language-model call is repeated, and a call that raised is the
\* last call of the run, which has aborted with that error: no call and no
\* save follows a failure.
C13_NoRetryFailStop ==
    /\ AtMostOnce
    /\ \A n \in 1..Len(calls) :
          calls[n].raised =>
              /\ n = Len(calls)
              /\ pc = "aborted"
              /\ error = "ReasoningEngineError"

\* the same for the calls main() makes itself, leaving aside the calls the
\* writer's ReAct loop makes to its tool
C13_MainCallsFailStop ==
    /\ AtMostOnce
    /\ \A n \in 1..Len(calls) :
          (calls[n].raised /\ calls[n].fn # "ask_head_physician_wrapper") =>
              /\ n = Len(calls)
              /\ pc = "aborted"
              /\ error = "ReasoningEngineError"

----------------------------------------------------------------------------
(* C14 *)

\* the position in the call log of the i-th call of fn
NthCall(fn, i) ==
    CHOOSE n \in CallsOf(fn) : Cardinality({ m \in CallsOf(fn) : m < n }) = i - 1

\* C14: a run that is done has saved one new file per predicted document,
\* at distinct paths, and the i-th file it wrote holds what the refiner
\* returned for the i-th document, the refiner having been handed the
\* predicted type of that document and the text the writer returned for
\* that document's type and description.
C14_CompletedRunSavedEveryDocument ==
    pc = "done" =>
        LET w == WritesOf(Len(runs))
            n == Len(documents_list)
        IN  /\ Len(w) = n
            /\ Cardinality(CallsOf("doc_writer")) = n
            /\ Cardinality(CallsOf("refiner")) = n
            /\ Cardinality({ w[i].path : i \in 1..Len(w) }) = n
            /\ \A i \in 1..Len(w) :
                  LET written == calls[NthCall("doc_writer", i)]
                      refined == calls[NthCall("refiner", i)]
                  IN  /\ ~w[i].existed
                      /\ w[i].document = i
                      /\ written.input.document_type = documents_list[i].type
                      /\ written.input.description = documents_list[i].description
                      /\ ~written.raised /\ ~refined.raised
                      /\ refined.input.document_type = documents_list[i].type
                      /\ refined.input.original_document = written.out
                      /\ w[i].content = refined.out
                      /\ w[i].path \in DOMAIN files
                      /\ files[w[i].path] = refined.out

\* the second run is done, having saved two documents of different types
\* after the first run saved a document
C14_Witness ==
    /\ pc = "done"
    /\ Len(runs) = 2
    /\ Len(WritesOf(1)) >= 1
    /\ Len(documents_list) = 2
    /\ documents_list[1].type # documents_list[2].type
    /\ Len(WritesOf(2)) = 2

----------------------------------------------------------------------------
(* C15 *)

\* a step leaves every file there is in place with its content
FilesKept == \A p \in DOMAIN files : p \in DOMAIN files' /\ files'[p] = files[p]

\* C15: no step of a run, the step that aborts it included, deletes or
\* changes a file, and when a run has aborted every file saved so far, by
\* this run before the failure or by earlier runs, is there with the
\* content that was saved.
C15_NoRollback ==
    /\ [][FilesKept]_vars
    /\ [](pc = "aborted" =>
             \A n \in 1..Len(writes) :
                 /\ writes[n].path \in DOMAIN files
                 /\ files[writes[n].path] = writes[n].content)

\* the second run aborted on its second document, in the refiner or in the
\* save, after saving its first; the first run had saved a document too
C15_Witness ==
    /\ pc = "aborted"
    /\ Len(runs) = 2
    /\ Len(WritesOf(1)) >= 1
    /\ Len(WritesOf(2)) = 1
    /\ doc_index = 2
    /\ error \in {"ReasoningEngineError", "OSError"}
    /\ Cardinality(DOMAIN files) = Len(writes)

----------------------------------------------------------------------------
(* C17 *)

\* the Ids of the patients table
PatientIds ==
    { dataframes["patients"].rows[n].Id :
        n \in 1..Len(dataframes["patients"].rows) }

\* C17: once a run whose selected encounter names a patient that is in no
\* row of the patients table is past the patient lookup, it has aborted
\* with IndexError (a LookupError), made no language-model call, written
\* no file and created no directory.
C17_MissingPatientAborts ==
    (/\ Started
     /\ Selected # None
     /\ PatientOf(Selected) \notin PatientIds
     /\ pc # "patient")
        => /\ pc = "aborted"
           /\ error = "IndexError"
           /\ patient_profile = NoPatientProfile
           /\ calls = << >>
           /\ writes = << >>
           /\ dirs = {}
           /\ DOMAIN files = {}

\* the run selected E4, whose patient P9 is not in the patients table, and
\* has aborted
C17_Witness ==
    /\ Started
    /\ Selected = "E4"
    /\ PatientOf(Selected) = "P9"
    /\ "P9" \notin PatientIds
    /\ pc = "aborted"
    /\ error = "IndexError"

----------------------------------------------------------------------------
(* C18 *)

\* from_row has returned a profile of the class
Built(class) == record # NotBuilt /\ record.ok /\ record.value.class = class
\* from_row has raised
Failed == record # NotBuilt /\ ~record.ok

\* the timestamp a is not later than the timestamp b
NotLater(a, b) ==
    LET x == << a.year, a.month, a.day, a.hour, a.minute, a.second >>
        y == << b.year, b.month, b.day, b.hour, b.minute, b.second >>
    IN  \/ x = y
        \/ \E k \in 1..6 : x[k] < y[k] /\ \A j \in 1..(k - 1) : x[j] = y[j]

\* C18: every EncounterProfile that from_row returns has a start that is
\* not later than its stop.
C18_StartNotAfterStop ==
    Built("EncounterProfile") =>
        NotLater(record.value.fields.start, record.value.fields.stop)

----------------------------------------------------------------------------
(* C19 *)

\* the cells of each class that feed an Optional field, the cells that feed
\* a required date field, and the field each cell feeds
OptionalCells ==
    [PatientProfile |-> {"MARITAL", "DEATHDATE", "ZIP"},
     EncounterProfile |-> {"REASONCODE"},
     MedicationProfile |-> {"STOP", "ENCOUNTER", "REASONCODE"}]
RequiredCells ==
    [PatientProfile |-> {"BIRTHDATE"},
     EncounterProfile |-> {"START", "STOP"},
     MedicationProfile |-> {"START"}]
FieldOf ==
    [BIRTHDATE |-> "birthdate", MARITAL |-> "marital", DEATHDATE |-> "deathdate",
     ZIP |-> "zip", START |-> "start", STOP |-> "stop",
     REASONCODE |-> "reasoncode", ENCOUNTER |-> "encounter"]
\* the cells that hold a value of the form the column is meant to have
WellFormedCells(column) ==
    IF column \in {"BIRTHDATE", "DEATHDATE"}
    THEN { Str(t) : t \in CalendarDateTexts }
    ELSE IF column \in {"START", "STOP"}
    THEN { Str(LaterDateTimeText), Str(EarlierDateTimeText) }
    ELSE { Str(<< "M" >>), Str(<< "E", "1" >>), Str(<< "0", "2", "1", "3", "4" >>),
           Num(2134), Num(7) }

\* the row has well-formed required cells, and optional cells that are
\* well formed or belong to blank
RowWithBlanks(blank) ==
    /\ \A n \in RequiredCells[profile_class] : cells[n] \in WellFormedCells(n)
    /\ \A n \in OptionalCells[profile_class] :
          cells[n] \in blank \cup WellFormedCells(n)

\* from_row returned and every optional cell that belongs to blank gave None
BlanksAreNone(blank) ==
    /\ record.ok
    /\ \A n \in OptionalCells[profile_class] :
          cells[n] \in blank => record.value.fields[FieldOf[n]] = NoneField

\* C19: from_row of a row whose optional cells are missing or empty (and
\* whose other cells are well formed) does not raise, and every field fed
\* by a missing or empty optional cell is None.
C19_BlankOptionalIsNone ==
    (record # NotBuilt /\ RowWithBlanks(MissingCells)) => BlanksAreNone(MissingCells)

\* the same for optional cells that are missing (NaN), not empty texts
C19_MissingOptionalIsNone ==
    (record # NotBuilt /\ RowWithBlanks({NaNCell})) => BlanksAreNone({NaNCell})

\* a blank DEATHDATE, missing or empty, gives deathdate = None
C19_BlankDeathdateIsNone ==
    (/\ record # NotBuilt
     /\ profile_class = "PatientProfile"
     /\ cells.DEATHDATE \in MissingCells
     /\ record.ok) => record.value.fields.deathdate = NoneField

----------------------------------------------------------------------------
(* C20 *)

\* the text has the form YYYY-MM-DD: a four-digit year, a month 01..12 and
\* a day 01..31
MatchesDate(text) ==
    LET parts == split(text, "-")
    IN  /\ Len(parts) = 3
        /\ \A k \in 1..3 : int_ok(parts[k])
        /\ Len(parts[1]) = 4 /\ Len(parts[2]) = 2 /\ Len(parts[3]) = 2
        /\ int(parts[2]) \in 1..12
        /\ int(parts[3]) \in 1..31

\* the date cells of a patient row
DateColumns == {"BIRTHDATE", "DEATHDATE"}

\* C20: from_row returns a profile or raises; it raises for every row with
\* a missing or empty required cell, and for every row with a date cell
\* whose text is not of the form YYYY-MM-DD.
C20_MalformedRowFails ==
    record # NotBuilt =>
        /\ record.ok => record.value.class = profile_class
        /\ (\E n \in RequiredCells[profile_class] : cells[n] \in MissingCells)
              => Failed
        /\ (/\ profile_class = "PatientProfile"
            /\ \E n \in DateColumns :
                  cells[n].kind = "str" /\ cells[n].text # << >>
                    /\ ~MatchesDate(cells[n].text))
              => Failed

\* the part about required cells: a row with a missing or empty required
\* cell gives no profile
C20_MissingRequiredFails ==
    (record # NotBuilt
       /\ \E n \in RequiredCells[profile_class] : cells[n] \in MissingCells)
        => Failed

----------------------------------------------------------------------------
(* C21 *)

\* C21: a trace of every call of the head physician is logged, with and
\* without --no-mlflow.
C21_OracleCallsAreLogged ==
    \A n \in CallsOf("ask_head_physician_wrapper") : calls[n].traced

\* the same for the runs that log to MLflow
C21_OracleCallsAreLoggedWithMlflow ==
    \A n \in CallsOf("ask_head_physician_wrapper") :
        ~ARGS.no_mlflow => calls[n].traced

----------------------------------------------------------------------------
(* C22 *)

\* the documents the writer may hand to the refiner
OriginalDocuments ==
    { DocumentText(d.type, d.description) :
        d \in { e \in DocEntries : well_formed(e) } }

\* the identifiers a text carries: the model's documents carry none unless
\* the refiner filled in the MRN line of its template
Identifiers(text) ==
    IF \E t \in DocTypes : \E original \in OriginalDocuments :
          text = BoilerplateText(t, original)
    THEN {"MRN: 12345"}
    ELSE {}

\* C22: the refiner adds no identifier: what it returns, and what is saved,
\* carries only identifiers of the document it was given.
C22_RefinerAddsNoIdentifier ==
    /\ \A n \in CallsOf("refiner") :
          ~calls[n].raised =>
              Identifiers(calls[n].out)
                  \subseteq Identifiers(calls[n].input.original_document)
    /\ \A n \in 1..Len(writes) :
          writes[n].run = Len(runs) /\ writes[n].document <= Len(result) =>
              Identifiers(writes[n].content)
                  \subseteq Identifiers(result[writes[n].document].content)

----------------------------------------------------------------------------
(* C23 *)

\* the stage of main() a call belongs to
SummarizerNames == { narrator_function(c) : c \in Categories }
StageOf(fn) ==
    CASE fn \in SummarizerNames                  -> 1
      [] fn = "generate_patient_narrative"       -> 2
      [] fn = "generate_encounter_narrative"     -> 3
      [] fn = "generate_documents_list"          -> 4
      [] OTHER                                   -> 5
\* fn returned at a position of the call log before n
ReturnedBefore(fn, n) ==
    \E m \in CallsOf(fn) : m < n /\ ~calls[m].raised
\* the predictor has returned
Predicted == \E m \in CallsOf("generate_documents_list") : ~calls[m].raised

\* C23: the stages run in the fixed order select, load patient, summarize,
\* fuse, predict, document phase, done, each after the previous returned:
\* no call before both profiles are built; the fuser only after the patient
\* narrative and the summarizer of every present category returned; the
\* predictor only after the fuser returned; no writer, oracle or refiner
\* call and no file before the predictor returned; done only after the last
\* predicted document is saved.
C23_StagesInOrder ==
    /\ calls # << >> =>
          encounter_profile # NoEncounterProfile /\ patient_profile # NoPatientProfile
    /\ \A m, n \in 1..Len(calls) :
          m < n => StageOf(calls[m].fn) <= StageOf(calls[n].fn)
    /\ \A n \in CallsOf("generate_encounter_narrative") :
          /\ ReturnedBefore("generate_patient_narrative", n)
          /\ \A c \in Categories \cap DOMAIN encounter_dataframes :
                ReturnedBefore(narrator_function(c), n)
    /\ \A n \in CallsOf("generate_documents_list") :
          ReturnedBefore("generate_encounter_narrative", n)
    /\ \A n \in 1..Len(calls) :
          StageOf(calls[n].fn) = 5 => ReturnedBefore("generate_documents_list", n)
    /\ writes # << >> => Predicted
    /\ pc = "done" =>
          /\ Predicted
          /\ Len(writes) = Len(documents_list)
          /\ documents_list # << >> =>
                writes[Len(writes)].document = Len(documents_list)

\* a run is done that summarized two categories and saved two documents,
\* one of them written after a question to the head physician
C23_Witness ==
    /\ pc = "done"
    /\ Len(writes) = 2
    /\ Cardinality({ c \in Categories : CallsOf(narrator_function(c)) # {} }) >= 2
    /\ CallsOf("ask_head_physician_wrapper") # {}

----------------------------------------------------------------------------
(* C24 *)

\* how many calls of fn the call log holds
Count(fn) == Cardinality(CallsOf(fn))

\* C24 as the specification states it: the document phase is one loop that
\* synthesizes, refines and saves a document before the next document is
\* synthesized, so the writer is never called for a document while the
\* document before it is not yet saved.
C24_PerDocumentLoop ==
    Count("doc_writer") <= Len(writes) + 1

\* C24 as the code has it: every document is synthesized, then refined,
\* then saved; the i-th refiner call is handed what the i-th writer call
\* returned and comes after it, the i-th file holds what the i-th refiner
\* call returned, and the refiner is called for a document only when the
\* document before it is saved.
C24_SynthesizeRefinePersistEach ==
    /\ Count("refiner") <= Len(writes) + 1
    /\ Len(writes) <= Count("refiner")
    /\ Count("refiner") <= Count("doc_writer")
    /\ \A i \in 1..Count("refiner") :
          LET written == NthCall("doc_writer", i)
              refined == NthCall("refiner", i)
          IN  /\ written < refined
              /\ ~calls[written].raised
              /\ calls[refined].input.original_document = calls[written].out
              /\ calls[refined].input.document_type =
                    calls[written].input.document_type
    /\ \A i \in 1..Len(writes) :
          LET refined == calls[NthCall("refiner", i)]
          IN  /\ ~refined.raised
              /\ writes[i].document = i
              /\ writes[i].content = refined.out

\* two documents of different types were written, refined and saved
C24_Witness ==
    /\ Len(writes) = 2
    /\ Count("doc_writer") = 2
    /\ Count("refiner") = 2
    /\ documents_list[1].type # documents_list[2].type

----------------------------------------------------------------------------
(* C25 *)

\* what the narrative call of each table returned, by table name; None for
\* a table that had no call
ReturnedByTable ==
    [c \in Categories |->
        IF CallsOf(narrator_function(c)) = {} THEN None
        ELSE calls[CHOOSE n \in CallsOf(narrator_function(c)) : TRUE].out]

\* C25: whatever the order the narrative calls of the present categories
\* are made in, the fuser and the head physician are handed what the calls
\* returned bound by category: their inputs are a function of the
\* per-category outputs alone, not of the order the calls finished in.
C25_OrderIndependent ==
    /\ \A c \in Categories : Cardinality(CallsOf(narrator_function(c))) <= 1
    /\ \A n \in CallsOf("generate_encounter_narrative") :
          calls[n].input =
              encounter_narrative_input(encounter_profile,
                                        PatientNarrativeText, ReturnedByTable)
    /\ \A n \in CallsOf("ask_head_physician_wrapper") :
          calls[n].input.encounter_narratives =
              head_physician_narratives(EncounterNarrativeText,
                                        PatientNarrativeText, ReturnedByTable)

\* the head physician was asked in a run whose narrative calls returned in
\* another order than main()'s, with different texts
C25_Witness ==
    /\ CallsOf("ask_head_physician_wrapper") # {}
    /\ \E m, n \in 1..Len(calls) :
          /\ m < n
          /\ calls[m].fn = narrator_function("medications")
          /\ calls[n].fn = narrator_function("observations")
          /\ calls[m].out # calls[n].out
          /\ calls[m].out # ""

----------------------------------------------------------------------------
(* C26 *)

\* C26: however the steps of two save_document calls for one encounter
\* interleave, the two calls write to two different paths and neither
\* overwrites a file.
C26_ConcurrentSavesDoNotCollide ==
    /\ \A n \in 1..Len(writes) : ~writes[n].existed
    /\ \A m, n \in 1..Len(writes) : m # n => writes[m].path # writes[n].path

----------------------------------------------------------------------------
(* C27 *)

\* the writer calls that returned a document
Synthesized == { n \in CallsOf("doc_writer") : ~calls[n].raised }

\* C27: every predicted document is written before any document is refined
\* or saved: once the refiner is called or a file is written, the writer has
\* returned for every predicted document, and every writer call precedes
\* every refiner call; a run in which the writer has not returned for every
\* predicted document, and so every run in which writing a document fails,
\* has saved nothing.
C27_AllSynthesizedFirst ==
    /\ (CallsOf("refiner") # {} \/ writes # << >>) =>
          /\ Cardinality(Synthesized) = Len(documents_list)
          /\ Count("doc_writer") = Len(documents_list)
          /\ \A m \in CallsOf("doc_writer") : \A n \in CallsOf("refiner") : m < n
    /\ Cardinality(Synthesized) < Len(documents_list) =>
          /\ CallsOf("refiner") = {}
          /\ writes = << >>
          /\ files = EmptyFiles
          /\ dirs = {}

\* the run aborted because writing the second of two predicted documents
\* raised, after the first was written
C27_Witness ==
    /\ pc = "aborted"
    /\ Len(documents_list) = 2
    /\ Count("doc_writer") = 2
    /\ Cardinality(Synthesized) = 1
    /\ calls[NthCall("doc_writer", 2)].raised

\* the refiner is called for the first of two written documents
C27_WitnessRefining ==
    /\ Count("refiner") = 1
    /\ Cardinality(Synthesized) = 2

----------------------------------------------------------------------------
(* C28 *)

\* a step in which save_document wrote its file: the file is 0.txt in the
\* directory of the smallest variant that did not exist, the step made that
\* directory and that file and nothing else
SavedInNewVariant ==
    writes' # writes =>
        LET saved == writes'[Len(writes')]
            encounter_id == saved.path[1]
            v == saved.path[2]
        IN  /\ Len(writes') = Len(writes) + 1
            /\ Len(saved.path) = 3
            /\ saved.path[3] = 0
            /\ << encounter_id, v >> \notin dirs
            /\ \A u \in 0..(v - 1) : << encounter_id, u >> \in dirs
            /\ dirs' = dirs \cup { << encounter_id >>, << encounter_id, v >> }
            /\ DOMAIN files' = (DOMAIN files) \cup { saved.path }
            /\ saved.path \notin DOMAIN files

\* the variant directories the saves of one run made are consecutive, and
\* each holds the single file 0.txt
ConsecutiveVariants ==
    /\ \A m, n \in 1..Len(writes) :
          (writes[m].run = writes[n].run /\ writes[n].document = writes[m].document + 1)
              => /\ writes[n].path[1] = writes[m].path[1]
                 /\ writes[n].path[2] = writes[m].path[2] + 1
    /\ \A n \in 1..Len(writes) :
          { p \in DOMAIN files : << p[1], p[2] >> = << writes[n].path[1], writes[n].path[2] >> }
              = { writes[n].path }

\* C28: every save_document call makes the directory E/v of the smallest v
\* for which E/v did not exist and writes exactly one file, 0.txt, into it;
\* a run that saves n documents makes n new variant directories with
\* consecutive numbers, each holding one 0.txt.
C28_OneNewVariantPerSave ==
    /\ [][SavedInNewVariant]_vars
    /\ []ConsecutiveVariants

\* the second run saved its two documents in the variants after those of
\* the first run, which saved two documents for the same encounter
C28_Witness ==
    /\ Len(runs) = 2
    /\ Len(WritesOf(1)) = 2
    /\ Len(WritesOf(2)) = 2
    /\ WritesOf(2)[1].path[1] = WritesOf(1)[1].path[1]
    /\ WritesOf(2)[2].path = << WritesOf(1)[1].path[1], 3, 0 >>

----------------------------------------------------------------------------
(* C29 *)

\* the predictor returned an entry without its type or its description
MalformedEntry(k) ==
    ~({"type", "description"} \subseteq DOMAIN documents_list[k])

\* C29: when an entry of the predictor's list lacks its type or its
\* description, whichever entry it is, the run gets no further than listing
\* the documents: it ends there with KeyError, with no writer, head
\* physician or refiner call made and nothing saved.
C29_MalformedEntryAbortsAtListing ==
    (\E k \in 1..Len(documents_list) : MalformedEntry(k)) =>
        /\ pc \in {"print_documents", "aborted"}
        /\ pc = "aborted" => error = "KeyError"
        /\ \A n \in 1..Len(calls) : StageOf(calls[n].fn) < 5
        /\ result = << >>
        /\ writes = << >>
        /\ files = EmptyFiles
        /\ dirs = {}

\* the run ended with KeyError on a list of two entries whose second is
\* the malformed one
C29_Witness ==
    /\ pc = "aborted"
    /\ error = "KeyError"
    /\ Len(documents_list) = 2
    /\ ~MalformedEntry(1)
    /\ MalformedEntry(2)

----------------------------------------------------------------------------
(* C30 *)

\* nothing was called and nothing was written
NothingDone ==
    /\ calls = << >>
    /\ writes = << >>
    /\ files = EmptyFiles
    /\ dirs = {}
\* the rows of the patients table with the Id of the selected encounter's
\* patient
SelectedPatientRows == patient_rows(dataframes, PatientOf(Selected))
\* the table main() handed to generate_narrative_for_table last
CurrentTable == CategoryOrder[table_index]
\* the rows of table c of the encounter are all well formed
RowsValid(c) ==
    \A n \in 1..Len(encounter_dataframes[c]) : encounter_dataframes[c][n].required_ok

\* C30: both profiles are built before the first language-model call, so a
\* run that ends on a malformed encounter row or patient row has called
\* nothing and written nothing; the rows of a category are validated right
\* before that category's narrator is called: a narrator is called only on
\* valid rows of its own table, and a run that ends on a malformed category
\* row ends at that category, after the narrators of the present
\* categories before it returned and before any other call.
C30_ProfilesFirstCategoriesInTurn ==
    /\ calls # << >> =>
          encounter_profile # NoEncounterProfile /\ patient_profile # NoPatientProfile
    /\ (pc = "aborted" /\ encounter_profile = NoEncounterProfile) => NothingDone
    /\ (/\ Started
        /\ Selected # None
        /\ SelectedPatientRows # << >>
        /\ pc # "patient")
          => IF SelectedPatientRows[1].required_ok
             THEN patient_profile # NoPatientProfile
             ELSE /\ pc = "aborted"
                  /\ error = "ValidationError"
                  /\ patient_profile = NoPatientProfile
                  /\ NothingDone
    /\ \A c \in Categories : \A n \in CallsOf(narrator_function(c)) :
          /\ c \in DOMAIN encounter_dataframes
          /\ RowsValid(c)
          /\ calls[n].input = profiles_of(encounter_dataframes[c])
    /\ (pc = "aborted" /\ error = "ValidationError"
           /\ patient_profile # NoPatientProfile)
          => /\ CurrentTable \in DOMAIN encounter_dataframes
             /\ ~RowsValid(CurrentTable)
             /\ CallsOf(narrator_function(CurrentTable)) = {}
             /\ \A k \in 1..(table_index - 1) :
                   CategoryOrder[k] \in DOMAIN encounter_dataframes =>
                       \E n \in CallsOf(narrator_function(CategoryOrder[k])) :
                           ~calls[n].raised
             /\ \A n \in 1..Len(calls) :
                   \E k \in 1..(table_index - 1) :
                       calls[n].fn = narrator_function(CategoryOrder[k])
             /\ writes = << >>

\* the run ended on the malformed conditions row of E3 after the narrator
\* of its observations returned
C30_Witness ==
    /\ pc = "aborted"
    /\ error = "ValidationError"
    /\ Selected = "E3"
    /\ CurrentTable = "conditions"
    /\ \E n \in CallsOf(narrator_function("observations")) : ~calls[n].raised

\* the run ended on the malformed row of the selected encounter's patient
C30_WitnessPatient ==
    /\ pc = "aborted"
    /\ error = "ValidationError"
    /\ Selected = "E5"
    /\ ~SelectedPatientRows[1].required_ok

\* the run ended on the malformed row of the encounter asked for
C30_WitnessEncounter ==
    /\ pc = "aborted"
    /\ error = "ValidationError"
    /\ ARGS.encounter_id = "E6"
    /\ encounter_profile = NoEncounterProfile

====
